---- MODULE Spec2Model ----
(***************************************************************************)
(* Review-session engine of srn (src/srn/note_reviewer.py) driven by       *)
(* ReviewCLI.run / CLI.cli_executor: note discovery, due selection, the    *)
(* interactive rating loop and the persistence of the review log.          *)
(***************************************************************************)
EXTENDS Integers, Sequences, FiniteSets, TLC

(* ------------------------------ bounds --------------------------------- *)
MaxTime == 1            \* the clock runs over 0..MaxTime
MaxSessions == 2        \* number of program runs on the same log file
MaxDelay == 1           \* the engine schedules a card at most this far ahead
MaxLimit == 2           \* largest limit q drawn for the selection runs
DayLen == 1             \* clock units per calendar day

(* -------------------------- program constants -------------------------- *)
DefaultLimit == 5       \* select_notes_for_review(self, q: int = 5)
MinDifficulty == 1      \* difficulty_schema: 1 <= n
MaxDifficulty == 4      \* difficulty_schema: n <= 4
RatingBase == 5         \* rating = 5 - difficulty
ExitUnexpected == 250   \* cli_executor: except Exception

(* ------------------------------ the files ------------------------------ *)
\* names the directory walk can yield: stem and suffix
MdA == [stem |-> "a", ext |-> "md"]
MdB == [stem |-> "b", ext |-> "md"]
Txt == [stem |-> "t", ext |-> "txt"]
FileNames == {MdA, MdB, Txt}

\* all duplicate-free listings of the names, as os.walk can yield them
Listings ==
    {<<>>, <<Txt>>, <<MdA>>, <<MdB, MdA>>, <<MdA, Txt, MdB>>}

\* file.endswith(".md")
EndsWithMd(f) == f.ext = "md"

RECURSIVE FilterMd(_)
FilterMd(fs) ==
    IF fs = <<>> THEN <<>>
    ELSE IF EndsWithMd(Head(fs)) THEN <<Head(fs)>> \o FilterMd(Tail(fs))
         ELSE FilterMd(Tail(fs))

DiscoverUnfiltered(exists, listing) == IF exists THEN listing ELSE <<>>
\* os.walk of a missing root yields nothing (onerror is None)
Discover(exists, listing) == IF exists THEN FilterMd(listing) ELSE <<>>

(* ------------------------------ the store ------------------------------ *)
\* a dict is an insertion-ordered sequence of [key, rec] entries
EmptyStore == <<>>
Keys(s) == {s[i].key : i \in 1..Len(s)}
HasKey(s, k) == \E i \in 1..Len(s) : s[i].key = k
Get(s, k) == s[CHOOSE i \in 1..Len(s) : s[i].key = k].rec

PutDroppingOthers(s, k, r) == <<[key |-> k, rec |-> r]>>
PutOverFirst(s, k, r) ==
    IF s = <<>> THEN <<[key |-> k, rec |-> r]>>
    ELSE [i \in 1..Len(s) |-> IF i = 1 THEN [key |-> k, rec |-> r] ELSE s[i]]
\* self.review_log[note] = {...}
Put(s, k, r) ==
    IF HasKey(s, k)
    THEN [i \in 1..Len(s) |-> IF s[i].key = k THEN [key |-> k, rec |-> r] ELSE s[i]]
    ELSE Append(s, [key |-> k, rec |-> r])

\* dict equality ignores insertion order
SameStore(s, t) ==
    /\ Keys(s) = Keys(t)
    /\ \A k \in Keys(s) : Get(s, k) = Get(t, k)

(* --------------------------- the scheduling engine --------------------- *)
\* Card(): a fresh card is due at its creation
NewCard(now) == [due |-> now, reps |-> 0]

\* FSRS.review_card(card, rating): the new card and the log entry; the
\* interval is the engine's choice and the payloads are opaque to the caller
ReviewCard(card, rating, now, delay) ==
    [card |-> [due |-> now + delay, reps |-> card.reps + 1],
     log  |-> [review |-> now]]

\* datetime.date.today().strftime("%Y-%m-%d")
Today(now) == now \div DayLen

(* ------------------------------ serialization -------------------------- *)
NoKey == [stem |-> "", ext |-> ""]
NoRec == [last_reviewed |-> -1, card |-> [due |-> -1, reps |-> -1],
          review_log |-> [review |-> -1]]
OpenTok == [t |-> "{", key |-> NoKey, rec |-> NoRec]
CloseTok == [t |-> "}", key |-> NoKey, rec |-> NoRec]
EntryTok(e) == [t |-> "entry", key |-> e.key, rec |-> e.rec]

DumpWithoutLast(s) ==
    <<OpenTok>> \o [i \in 1..(IF Len(s) > 0 THEN Len(s) - 1 ELSE 0) |-> EntryTok(s[i])] \o <<CloseTok>>
\* json.dump(self.review_log, f, indent=4): the chunks written, in order
Dump(s) == <<OpenTok>> \o [i \in 1..Len(s) |-> EntryTok(s[i])] \o <<CloseTok>>

ParsesLenient(data) == TRUE
\* json.load accepts exactly a complete document
Parses(data) ==
    /\ Len(data) >= 2
    /\ data[1] = OpenTok
    /\ data[Len(data)] = CloseTok
    /\ \A i \in 2..(Len(data) - 1) : data[i].t = "entry"

ParseDroppingLast(data) ==
    [i \in 1..(IF Len(data) > 2 THEN Len(data) - 3 ELSE 0) |->
        [key |-> data[i + 1].key, rec |-> data[i + 1].rec]]
\* json.load(f): the dict of a complete document
Parse(data) == [i \in 1..(Len(data) - 2) |-> [key |-> data[i + 1].key, rec |-> data[i + 1].rec]]

NoFile == [exists |-> FALSE, data |-> <<>>]

(* ------------------------------ the answers ---------------------------- *)
\* lines the user can type at a prompt
Inputs == {"q", "abc", "0", "1", "2", "3", "4", "5"}

\* lines the user can type at the acknowledgement prompt: Enter alone, the
\* quit sentinel, a difficulty
AckInputs == {"", "q", "1"}

\* int(answer) succeeds
IsIntLiteral(a) == a \in {"0", "1", "2", "3", "4", "5"}
\* the value of int(answer)
IntOf(a) ==
    CASE a = "0" -> 0 [] a = "1" -> 1 [] a = "2" -> 2 [] a = "3" -> 3
      [] a = "4" -> 4 [] a = "5" -> 5
      [] OTHER -> 0

IsQuitUpper(a) == a = "Q"
\* answer == "q"
IsQuit(a) == a = "q"

ValidatesUpToFive(n) == MinDifficulty <= n /\ n <= MaxDifficulty + 1
\* difficulty_schema = And(Use(int), lambda n: 1 <= n <= 4)
Validates(n) == MinDifficulty <= n /\ n <= MaxDifficulty

RatingSameAsDifficulty(d) == d
\* rating = 5 - difficulty
RatingOf(d) == RatingBase - d

(* ------------------------------ selection ------------------------------ *)
IsDueStrict(card, now) == card.due < now
\* card.due.timestamp() <= datetime.datetime.now().timestamp()
IsDue(card, now) == card.due <= now

NoteIsDueAlways(store, note, now) == TRUE
NoteIsDueOnlyRecorded(store, note, now) ==
    IF HasKey(store, note) THEN IsDue(Get(store, note).card, now) ELSE FALSE
\* the body of "for note in notes": a note without a record is always due
NoteIsDue(store, note, now) ==
    IF HasKey(store, note) THEN IsDue(Get(store, note).card, now) ELSE TRUE

SliceOneMore(s, k) == SubSeq(s, 1, IF k + 1 < Len(s) THEN k + 1 ELSE Len(s))
SliceFromEnd(s, k) ==
    SubSeq(s, (IF k < Len(s) THEN Len(s) - k + 1 ELSE 1), Len(s))
\* notes_due[:q]
Slice(s, k) ==
    LET end == IF k >= 0 THEN (IF k < Len(s) THEN k ELSE Len(s))
               ELSE (IF Len(s) + k > 0 THEN Len(s) + k ELSE 0)
    IN SubSeq(s, 1, end)

Range(s) == {s[i] : i \in 1..Len(s)}

(* ------------------------------ the state ------------------------------ *)
VARIABLES
    file,             \* the review log file on disk: [exists, data]
    listing,          \* what os.walk(notes_path) yields in this run
    rootExists,       \* whether notes_path exists
    clock,            \* the wall clock
    session,          \* the number of the current program run
    pc,               \* where the run stands
    outcome,          \* how the run ended
    stoppedAt,        \* pc at which an exception or interruption ended the run
    review_log,       \* self.review_log
    loaded,           \* self.review_log as __init__ loaded it
    notes,            \* select_notes_for_review: notes
    notes_due,        \* select_notes_for_review: notes_due
    si,               \* select_notes_for_review: notes already examined
    q,                \* select_notes_for_review: q
    notes_for_review, \* review_notes: notes_for_review
    idx,              \* review_notes: notes of the queue already finished
    line,             \* review_notes: answer, the last difficulty line read
    ack,              \* review_notes: the line the pending acknowledgement read
    reprompted,       \* a SchemaError was handled for the current note
    nRated,           \* difficulties accepted in this run
    nSaves,           \* save_review_log calls completed in this run
    nCalls,           \* review_card calls in this run
    lastCall,         \* arguments of the last review_card call
    saved,            \* the store of the last completed save, while the file holds it
    discovered        \* the identities discovery has returned so far, in any run

vars == <<file, listing, rootExists, clock, session, pc, outcome, stoppedAt,
          review_log, loaded, notes, notes_due, si, q, notes_for_review, idx,
          line, ack, reprompted, nRated, nSaves, nCalls, lastCall, saved,
          discovered>>

envVars == <<listing, rootExists, session>>
selVars == <<notes, notes_due, si, q>>
ghostVars == <<nRated, nSaves, nCalls, lastCall>>
histVars == <<saved, discovered>>

NoSaved == [valid |-> FALSE, store |-> EmptyStore]

NoCall == [note |-> NoKey, card |-> NoRec.card, rating |-> 0, line |-> ""]

\* exit status handed to sys.exit by cli_executor
ExitCode(o) ==
    CASE o = "exhausted" -> 0
      [] o = "quit" -> 0
      [] o = "error" -> ExitUnexpected
      [] OTHER -> -1

Init ==
    /\ file = NoFile
    /\ rootExists \in BOOLEAN
    /\ listing \in (IF rootExists THEN Listings ELSE {<<>>})
    /\ clock = 0
    /\ session = 1
    /\ pc = "start"
    /\ outcome = "none"
    /\ stoppedAt = "none"
    /\ review_log = EmptyStore
    /\ loaded = EmptyStore
    /\ notes = <<>>
    /\ notes_due = <<>>
    /\ si = 0
    /\ q = DefaultLimit
    /\ notes_for_review = <<>>
    /\ idx = 0
    /\ line = ""
    /\ reprompted = FALSE
    /\ nRated = 0
    /\ nSaves = 0
    /\ nCalls = 0
    /\ lastCall = NoCall
    /\ saved = NoSaved
    /\ discovered = {}
    /\ ack = ""

RaiseSwallowedInSave ==
    IF pc \in {"save_open", "save_write"}
    THEN pc' = "present" /\ outcome' = outcome /\ stoppedAt' = stoppedAt
    ELSE pc' = "done" /\ outcome' = "error" /\ stoppedAt' = pc
\* an uncaught exception reaches cli_executor: exit_code = 250
Raise ==
    /\ pc' = "done"
    /\ outcome' = "error"
    /\ stoppedAt' = pc

\* NoteReviewer.__init__: load the review log
Load ==
    /\ pc = "start"
    /\ IF file.exists
       THEN IF Parses(file.data)
            THEN /\ review_log' = Parse(file.data)
                 /\ loaded' = Parse(file.data)
                 /\ pc' = "walk"
                 /\ UNCHANGED <<outcome, stoppedAt>>
            ELSE /\ Raise
                 /\ UNCHANGED <<review_log, loaded>>
       ELSE /\ review_log' = EmptyStore
            /\ loaded' = EmptyStore
            /\ pc' = "walk"
            /\ UNCHANGED <<outcome, stoppedAt>>
    /\ UNCHANGED <<file, clock, notes_for_review, idx, line, reprompted>>
    /\ UNCHANGED <<envVars, selVars, ghostVars>>
    /\ UNCHANGED histVars
    /\ UNCHANGED ack

\* select_notes_for_review: the directory walk
Walk ==
    /\ pc = "walk"
    /\ notes' = Discover(rootExists, listing)
    /\ notes_due' = <<>>
    /\ si' = 0
    /\ pc' = "select"
    /\ UNCHANGED <<file, clock, outcome, stoppedAt, review_log, loaded, q,
                   notes_for_review, idx, line, reprompted>>
    /\ UNCHANGED <<envVars, ghostVars>>
    /\ discovered' = discovered \cup Range(Discover(rootExists, listing))
    /\ UNCHANGED saved
    /\ UNCHANGED ack

\* select_notes_for_review: one iteration of "for note in notes"
SelStep ==
    /\ pc = "select"
    /\ si < Len(notes)
    /\ LET note == notes[si + 1] IN
       IF NoteIsDue(review_log, note, clock)
       THEN notes_due' = Append(notes_due, note)
       ELSE notes_due' = notes_due
    /\ si' = si + 1
    /\ UNCHANGED <<file, clock, pc, outcome, stoppedAt, review_log, loaded,
                   notes, q, notes_for_review, idx, line, reprompted>>
    /\ UNCHANGED <<envVars, ghostVars>>
    /\ UNCHANGED histVars
    /\ UNCHANGED ack

SelReturnTouchingFile ==
    /\ pc = "select"
    /\ si = Len(notes)
    /\ notes_for_review' = Slice(notes_due, q)
    /\ idx' = 0
    /\ IF Slice(notes_due, q) = <<>>
       THEN /\ pc' = "done" /\ outcome' = "exhausted"
            /\ file' = [exists |-> TRUE, data |-> Dump(review_log)]
       ELSE /\ pc' = "present" /\ outcome' = outcome
            /\ file' = file
    /\ UNCHANGED <<clock, stoppedAt, review_log, loaded, line, reprompted>>
    /\ UNCHANGED <<envVars, selVars, ghostVars>>
    /\ UNCHANGED histVars
    /\ UNCHANGED ack
\* select_notes_for_review returns notes_due[:q]; review_notes starts its loop
SelReturn ==
    /\ pc = "select"
    /\ si = Len(notes)
    /\ notes_for_review' = Slice(notes_due, q)
    /\ idx' = 0
    /\ IF Slice(notes_due, q) = <<>>
       THEN pc' = "done" /\ outcome' = "exhausted"
       ELSE pc' = "present" /\ outcome' = outcome
    /\ UNCHANGED <<file, clock, stoppedAt, review_log, loaded, line, reprompted>>
    /\ UNCHANGED <<envVars, selVars, ghostVars>>
    /\ UNCHANGED histVars
    /\ UNCHANGED ack

\* the wall clock advances.  The clock is read only by the due test of
\* select_notes_for_review and by the engine call of review_notes, so time
\* passes where a read can follow: between runs, during selection, and while
\* the prompt waits for the answer
Tick ==
    /\ clock < MaxTime
    /\ pc \in {"start", "select", "ask"}
    /\ clock' = clock + 1
    /\ UNCHANGED <<file, pc, outcome, stoppedAt, review_log, loaded,
                   notes_for_review, idx, line, reprompted>>
    /\ UNCHANGED <<envVars, selVars, ghostVars>>
    /\ UNCHANGED histVars
    /\ UNCHANGED ack

CurrentNoteFromListing == listing[idx + 1]
CurrentNoteAlwaysFirst == notes_for_review[1]
\* for note in notes_for_review
CurrentNote == notes_for_review[idx + 1]

PresentHonouringQuit ==
    /\ pc = "present"
    /\ \E a \in AckInputs :
         /\ ack' = a
         /\ IF IsQuit(a)
            THEN pc' = "done" /\ outcome' = "quit"
            ELSE pc' = "ask" /\ outcome' = outcome
    /\ UNCHANGED <<file, clock, stoppedAt, review_log, loaded,
                   notes_for_review, idx, line, reprompted>>
    /\ UNCHANGED <<envVars, selVars, ghostVars>>
    /\ UNCHANGED histVars
\* review_notes: print the note and read the acknowledgement line, which is
\* discarded
Present ==
    /\ pc = "present"
    /\ \E a \in AckInputs : ack' = a
    /\ pc' = "ask"
    /\ UNCHANGED <<file, clock, outcome, stoppedAt, review_log, loaded,
                   notes_for_review, idx, line, reprompted>>
    /\ UNCHANGED <<envVars, selVars, ghostVars>>
    /\ UNCHANGED histVars

AskQuitIgnored ==
    /\ pc = "ask"
    /\ \E a \in Inputs :
         /\ IsQuit(a)
         /\ line' = a
    /\ pc' = "present"
    /\ UNCHANGED <<file, clock, outcome, stoppedAt, review_log, loaded,
                   notes_for_review, idx, reprompted>>
    /\ UNCHANGED <<envVars, selVars, ghostVars>>
    /\ UNCHANGED histVars
    /\ ack' = ""
\* review_notes: the answer is "q": finish_review, break, return
AskQuit ==
    /\ pc = "ask"
    /\ \E a \in Inputs :
         /\ IsQuit(a)
         /\ line' = a
    /\ pc' = "done"
    /\ outcome' = "quit"
    /\ UNCHANGED <<file, clock, stoppedAt, review_log, loaded,
                   notes_for_review, idx, reprompted>>
    /\ UNCHANGED <<envVars, selVars, ghostVars>>
    /\ UNCHANGED histVars
    /\ ack' = ""

\* review_notes: int(answer) raises ValueError, which no handler catches
AskValueError ==
    /\ pc = "ask"
    /\ \E a \in Inputs :
         /\ ~IsQuit(a)
         /\ ~IsIntLiteral(a)
         /\ line' = a
    /\ Raise
    /\ UNCHANGED <<file, clock, review_log, loaded, notes_for_review, idx,
                   reprompted>>
    /\ UNCHANGED <<envVars, selVars, ghostVars>>
    /\ UNCHANGED histVars
    /\ ack' = ""

\* review_notes: the schema rejects the integer: SchemaError, continue
AskSchemaError ==
    /\ pc = "ask"
    /\ \E a \in Inputs :
         /\ ~IsQuit(a)
         /\ IsIntLiteral(a)
         /\ ~Validates(IntOf(a))
         /\ line' = a
    /\ reprompted' = TRUE
    /\ pc' = "present"
    /\ UNCHANGED <<file, clock, outcome, stoppedAt, review_log, loaded,
                   notes_for_review, idx>>
    /\ UNCHANGED <<envVars, selVars, ghostVars>>
    /\ UNCHANGED histVars
    /\ ack' = ""

UpdateReviewLogAlwaysFresh(store, note, rating, now, delay) ==
    LET res == ReviewCard(NewCard(now), rating, now, delay)
    IN Put(store, note, [last_reviewed |-> Today(now),
                         card |-> res.card,
                         review_log |-> res.log])
\* update_review_log(note, rating): the record put for the note
UpdateReviewLog(store, note, rating, now, delay) ==
    LET card == IF HasKey(store, note) THEN Get(store, note).card ELSE NewCard(now)
        res == ReviewCard(card, rating, now, delay)
    IN Put(store, note, [last_reviewed |-> Today(now),
                         card |-> res.card,
                         review_log |-> res.log])

\* review_notes: the difficulty is accepted; rating = 5 - difficulty and
\* update_review_log runs; save_review_log is entered
AskRate ==
    /\ pc = "ask"
    /\ \E a \in Inputs, delay \in 0..MaxDelay :
         /\ ~IsQuit(a)
         /\ IsIntLiteral(a)
         /\ Validates(IntOf(a))
         /\ line' = a
         /\ LET difficulty == IntOf(a)
                rating == RatingOf(difficulty)
            IN /\ review_log' = UpdateReviewLog(review_log, CurrentNote, rating, clock, delay)
               /\ lastCall' = [note |-> CurrentNote,
                               card |-> IF HasKey(review_log, CurrentNote)
                                        THEN Get(review_log, CurrentNote).card
                                        ELSE NewCard(clock),
                               rating |-> rating,
                               line |-> a]
    /\ nCalls' = nCalls + 1
    /\ nRated' = nRated + 1
    /\ pc' = "save_open"
    /\ UNCHANGED <<file, clock, outcome, stoppedAt, loaded, notes_for_review,
                   idx, reprompted, nSaves>>
    /\ UNCHANGED <<envVars, selVars>>
    /\ UNCHANGED histVars
    /\ ack' = ""

\* save_review_log: open(self.review_log_file, "w") creates or truncates.
\* The answer and the rating are not read again once the save has begun
\* (the next input() reassigns answer), so they are cleared here
SaveOpen ==
    /\ pc = "save_open"
    /\ file' = [exists |-> TRUE, data |-> <<>>]
    /\ pc' = "save_write"
    /\ line' = ""
    /\ lastCall' = NoCall
    /\ reprompted' = FALSE
    /\ UNCHANGED <<clock, outcome, stoppedAt, review_log, loaded,
                   notes_for_review, idx>>
    /\ UNCHANGED <<envVars, selVars, nRated, nSaves, nCalls>>
    /\ saved' = NoSaved
    /\ UNCHANGED discovered
    /\ UNCHANGED ack

\* save_review_log: json.dump writes the next chunk
SaveWrite ==
    /\ pc = "save_write"
    /\ Len(file.data) < Len(Dump(review_log))
    /\ file' = [exists |-> TRUE,
                data |-> Append(file.data, Dump(review_log)[Len(file.data) + 1])]
    /\ UNCHANGED <<clock, pc, outcome, stoppedAt, review_log, loaded,
                   notes_for_review, idx, line, reprompted>>
    /\ UNCHANGED <<envVars, selVars, ghostVars>>
    /\ UNCHANGED histVars
    /\ UNCHANGED ack

\* save_review_log returns; review_notes goes on to the next note or returns
SaveClose ==
    /\ pc = "save_write"
    /\ Len(file.data) = Len(Dump(review_log))
    /\ nSaves' = nSaves + 1
    /\ idx' = idx + 1
    /\ IF idx + 1 < Len(notes_for_review)
       THEN pc' = "present" /\ outcome' = outcome
       ELSE pc' = "done" /\ outcome' = "exhausted"
    /\ UNCHANGED <<file, clock, stoppedAt, review_log, loaded,
                   notes_for_review, line, reprompted, nRated, nCalls, lastCall>>
    /\ UNCHANGED <<envVars, selVars>>
    /\ saved' = [valid |-> TRUE, store |-> review_log]
    /\ UNCHANGED discovered
    /\ UNCHANGED ack

\* save_review_log: open or write raises OSError, which no handler catches
SaveFail ==
    /\ pc \in {"save_open", "save_write"}
    /\ Raise
    /\ UNCHANGED <<file, clock, review_log, loaded, notes_for_review, idx,
                   line, reprompted>>
    /\ UNCHANGED <<envVars, selVars, ghostVars>>
    /\ UNCHANGED histVars
    /\ UNCHANGED ack

\* the process is stopped from outside (signal, power loss)
Interrupt ==
    /\ pc # "done"
    /\ pc' = "done"
    /\ outcome' = "interrupted"
    /\ stoppedAt' = pc
    /\ UNCHANGED <<file, clock, review_log, loaded, notes_for_review, idx,
                   line, reprompted>>
    /\ UNCHANGED <<envVars, selVars, ghostVars>>
    /\ UNCHANGED histVars
    /\ UNCHANGED ack

\* the program is run again on the same log file
Restart ==
    /\ pc = "done"
    /\ session < MaxSessions
    /\ session' = session + 1
    /\ rootExists' \in BOOLEAN
    /\ listing' \in (IF rootExists' THEN Listings ELSE {<<>>})
    /\ pc' = "start"
    /\ outcome' = "none"
    /\ stoppedAt' = "none"
    /\ review_log' = EmptyStore
    /\ loaded' = EmptyStore
    /\ notes' = <<>>
    /\ notes_due' = <<>>
    /\ si' = 0
    /\ notes_for_review' = <<>>
    /\ idx' = 0
    /\ line' = ""
    /\ reprompted' = FALSE
    /\ nRated' = 0
    /\ nSaves' = 0
    /\ nCalls' = 0
    /\ lastCall' = NoCall
    /\ UNCHANGED <<file, clock, q>>
    /\ UNCHANGED histVars
    /\ ack' = ""

Next ==
    \/ Load
    \/ Walk
    \/ SelStep
    \/ SelReturn
    \/ Present
    \/ AskQuit
    \/ AskValueError
    \/ AskSchemaError
    \/ AskRate
    \/ SaveOpen
    \/ SaveWrite
    \/ SaveClose
    \/ SaveFail
    \/ Interrupt
    \/ Tick
    \/ Restart

Spec == Init /\ [][Next]_vars

(* ---------------- runs of select_notes_for_review alone ---------------- *)
\* records as update_review_log builds them for a first review at time r
FirstRecord(r, d) ==
    [last_reviewed |-> Today(r),
     card |-> ReviewCard(NewCard(r), 1, r, d).card,
     review_log |-> ReviewCard(NewCard(r), 1, r, d).log]

SelRecords == {FirstRecord(r, d) : r \in 0..MaxTime, d \in 0..MaxDelay}

SelStores ==
    {EmptyStore}
    \cup {<<[key |-> k, rec |-> r]>> : k \in {MdA, MdB}, r \in SelRecords}
    \cup {<<[key |-> MdA, rec |-> r1], [key |-> MdB, rec |-> r2]>> :
            r1 \in SelRecords, r2 \in SelRecords}

SelInit ==
    /\ review_log \in SelStores
    /\ loaded = review_log
    /\ file = (IF review_log = EmptyStore THEN NoFile
               ELSE [exists |-> TRUE, data |-> Dump(review_log)])
    /\ rootExists \in BOOLEAN
    /\ listing \in (IF rootExists THEN Listings ELSE {<<>>})
    /\ clock \in 0..MaxTime
    /\ q \in (-1)..MaxLimit
    /\ session = 1
    /\ pc = "walk"
    /\ outcome = "none"
    /\ stoppedAt = "none"
    /\ notes = <<>>
    /\ notes_due = <<>>
    /\ si = 0
    /\ notes_for_review = <<>>
    /\ idx = 0
    /\ line = ""
    /\ reprompted = FALSE
    /\ nRated = 0
    /\ nSaves = 0
    /\ nCalls = 0
    /\ lastCall = NoCall
    /\ saved = (IF review_log = EmptyStore THEN NoSaved
                ELSE [valid |-> TRUE, store |-> review_log])
    /\ discovered = Keys(review_log)
    /\ ack = ""

SelNext ==
    \/ Walk
    \/ SelStep
    \/ SelReturn
    \/ Tick

SelSpec == SelInit /\ [][SelNext]_vars


(* ------------------------- runs with a willing user -------------------- *)
\* files a run can find: none, a saved store, or what a stopped save left
LiveFiles ==
    {NoFile, [exists |-> TRUE, data |-> <<OpenTok>>]}
    \cup {[exists |-> TRUE, data |-> Dump(st)] : st \in SelStores}

\* one program run from its start, on any such file
LiveInit ==
    /\ file \in LiveFiles
    /\ rootExists \in BOOLEAN
    /\ listing \in (IF rootExists THEN Listings ELSE {<<>>})
    /\ clock = 0
    /\ session = 1
    /\ pc = "start"
    /\ outcome = "none"
    /\ stoppedAt = "none"
    /\ review_log = EmptyStore
    /\ loaded = EmptyStore
    /\ notes = <<>>
    /\ notes_due = <<>>
    /\ si = 0
    /\ q = DefaultLimit
    /\ notes_for_review = <<>>
    /\ idx = 0
    /\ line = ""
    /\ reprompted = FALSE
    /\ nRated = 0
    /\ nSaves = 0
    /\ nCalls = 0
    /\ lastCall = NoCall
    /\ saved = (IF file.exists /\ Parses(file.data)
                THEN [valid |-> TRUE, store |-> Parse(file.data)]
                ELSE NoSaved)
    /\ discovered = {file.data[i].key : i \in {j \in 1..Len(file.data) : file.data[j].t = "entry"}}
    /\ ack = ""

\* a step the interpreter takes by itself: no input() is pending
ProgramStep ==
    \/ Load
    \/ Walk
    \/ SelStep
    \/ SelReturn
    \/ SaveOpen
    \/ SaveWrite
    \/ SaveClose

\* the answer to the difficulty prompt is the quit sentinel or in 1..4
GoodAnswer == AskQuit \/ AskRate

LiveNext ==
    \/ ProgramStep
    \/ Present
    \/ GoodAnswer
    \/ AskValueError
    \/ AskSchemaError
    \/ SaveFail
    \/ Interrupt
    \/ Tick

\* the interpreter keeps running, input("Press Enter...") returns, and the
\* user sooner or later gives a good answer to the difficulty prompt
LiveSpec ==
    /\ LiveInit
    /\ [][LiveNext]_vars
    /\ WF_vars(ProgramStep)
    /\ WF_vars(Present)
    /\ SF_vars(GoodAnswer)


(* ------------------------------ properties ----------------------------- *)
\* the store the file holds; a missing file counts as the empty store
DiskStore == IF file.exists THEN Parse(file.data) ELSE EmptyStore

FirstNotes(n) == {notes_for_review[i] : i \in 1..n}

\* the file holds updated records for exactly the first n notes of the queue
\* and the loaded records for every other key
DiskHasFirst(n) ==
    /\ file.exists => Parses(file.data)
    /\ Keys(DiskStore) = Keys(loaded) \cup FirstNotes(n)
    /\ \A k \in FirstNotes(n) :
         /\ HasKey(DiskStore, k)
         /\ HasKey(review_log, k)
         /\ Get(DiskStore, k) = Get(review_log, k)
         /\ Get(DiskStore, k).card.reps =
              (IF HasKey(loaded, k) THEN Get(loaded, k).card.reps + 1 ELSE 1)
    /\ \A k \in Keys(loaded) \ FirstNotes(n) :
         /\ HasKey(DiskStore, k)
         /\ Get(DiskStore, k) = Get(loaded, k)

\* the run waits for input between two notes, or was stopped there
BetweenNotes ==
    \/ pc \in {"present", "ask"}
    \/ pc = "done" /\ outcome = "interrupted" /\ stoppedAt \in {"present", "ask"}
    \/ pc = "done" /\ outcome = "exhausted"

\* C1: whenever the run stands, or was stopped, between the save of note N
\* and the rating of note N+1, the file holds updated records for exactly the
\* first N notes of the queue and every other record is as loaded.
C1Durability == BetweenNotes => DiskHasFirst(idx)

C1Witness ==
    /\ pc = "done"
    /\ outcome = "interrupted"
    /\ stoppedAt = "ask"
    /\ idx = 1
    /\ Len(notes_for_review) = 2
    /\ Keys(loaded) # {}
    /\ notes_for_review[1] \in Keys(loaded)

\* C2: in every state, also in the middle of save_review_log, the file holds
\* the record of every review of this run completed before the one in
\* progress.
C2BoundedLoss ==
    \A i \in 1..idx :
        /\ file.exists
        /\ Parses(file.data)
        /\ HasKey(DiskStore, notes_for_review[i])
        /\ Get(DiskStore, notes_for_review[i]) = Get(review_log, notes_for_review[i])

\* C3: in every state the file is absent or a complete serialization of a
\* store; a torn or empty file is never on disk.
C3AtomicSave == file.exists => Parses(file.data)

\* C4: every accepted rating causes exactly one full save, completed before
\* the next note is presented or the run returns: at every prompt and at a
\* normal end the saves equal the accepted ratings and the file holds the
\* whole store; during a save exactly one save is outstanding.
C4OneSavePerRating ==
    /\ pc \in {"present", "ask"} =>
         /\ nSaves = nRated
         /\ nRated = idx
         /\ nRated > 0 => file.exists /\ Parses(file.data) /\ SameStore(DiskStore, review_log)
    /\ pc \in {"save_open", "save_write"} => nSaves = nRated - 1 /\ nSaves = idx
    /\ (pc = "done" /\ outcome \in {"exhausted", "quit"}) =>
         /\ nSaves = nRated
         /\ nRated = idx
         /\ nRated > 0 => file.exists /\ Parses(file.data) /\ SameStore(DiskStore, review_log)
    /\ (pc = "done" /\ outcome = "exhausted") => nSaves = Len(notes_for_review)

C4Witness ==
    /\ pc = "done"
    /\ outcome = "exhausted"
    /\ nRated = 2
    /\ nSaves = 2

\* a step that reads the difficulty answer and acts on it
AskStep == pc = "ask" /\ pc' # "ask" /\ outcome' # "interrupted"

\* C5: "q" at the difficulty prompt ends the run at once with a non-error
\* outcome, leaves store and file untouched, no note is presented afterwards,
\* and the file holds exactly the updates of the notes rated before.
C5QuitSafe ==
    /\ [](pc = "done" /\ outcome = "quit" =>
            /\ ExitCode(outcome) = 0
            /\ nRated = idx
            /\ DiskHasFirst(idx)
            /\ SameStore(DiskStore, review_log))
    /\ [][(AskStep /\ line' = "q") =>
            /\ pc' = "done"
            /\ outcome' = "quit"
            /\ UNCHANGED <<review_log, file, idx, nRated, nCalls, nSaves>>]_vars
    /\ [][(pc = "done" /\ session' = session) => pc' = "done"]_vars

C5Witness ==
    /\ pc = "done"
    /\ outcome = "quit"
    /\ idx = 1
    /\ Len(notes_for_review) = 2
    /\ nSaves = 1

\* C6: a difficulty answer that is neither "q" nor an integer is re-prompted:
\* the run goes back to the same note without ending and without changing
\* store or file.
C6NonIntegerReprompts ==
    [][(AskStep /\ line' # "q" /\ ~IsIntLiteral(line')) =>
          /\ pc' = "present"
          /\ outcome' = "none"
          /\ idx' = idx
          /\ UNCHANGED <<review_log, file>>]_vars

\* C7: an integer answer outside 1..4 sends the run back to the same note
\* without an engine call and without changing store or file; an integer
\* answer in 1..4 records that same note.
C7OutOfRangeReprompts ==
    [][/\ (AskStep /\ IsIntLiteral(line') /\ IntOf(line') \notin 1..4) =>
            /\ pc' = "present"
            /\ outcome' = "none"
            /\ idx' = idx
            /\ UNCHANGED <<review_log, file, notes_for_review, nCalls, nRated>>
       /\ (AskStep /\ IsIntLiteral(line') /\ IntOf(line') \in 1..4) =>
            /\ pc' = "save_open"
            /\ idx' = idx
            /\ nCalls' = nCalls + 1
            /\ lastCall'.note = notes_for_review[idx + 1]
            /\ HasKey(review_log', notes_for_review[idx + 1])]_vars

C7Witness ==
    /\ pc = "save_open"
    /\ reprompted
    /\ line = "2"
    /\ lastCall.note = CurrentNote

\* C8: the rating handed to the engine is 5 minus the accepted difficulty,
\* and both lie in 1..4.
C8RatingInversion ==
    lastCall # NoCall =>
        /\ IntOf(lastCall.line) \in 1..4
        /\ lastCall.rating = 5 - IntOf(lastCall.line)
        /\ lastCall.rating \in 1..4
        /\ (lastCall.line = "1" => lastCall.rating = 4)
        /\ (lastCall.line = "2" => lastCall.rating = 3)
        /\ (lastCall.line = "3" => lastCall.rating = 2)
        /\ (lastCall.line = "4" => lastCall.rating = 1)

C8Witness == nCalls > 0 /\ lastCall.line = "1" /\ lastCall.rating = 4

\* select_notes_for_review has returned
Returned == pc \in {"present", "done"}

\* C9 (as claimed): every catalog note without a record is in the result of
\* select_notes_for_review, whatever the limit.
C9InclusionAnyLimit ==
    Returned =>
        \A i \in 1..Len(notes) :
            ~HasKey(review_log, notes[i]) => notes[i] \in Range(notes_for_review)

\* C9 (amended): every catalog note without a record is put in the due list,
\* and it is in the result whenever the limit is >= 0 and the note is among
\* the first `limit` due notes in catalog order.
C9NewNoteInclusion ==
    /\ pc = "select" \/ Returned =>
         \A i \in 1..si :
             ~HasKey(review_log, notes[i]) => notes[i] \in Range(notes_due)
    /\ Returned =>
         \A j \in 1..Len(notes_due) :
             (q >= 0 /\ j <= q /\ ~HasKey(review_log, notes_due[j])) =>
                 notes_due[j] \in Range(notes_for_review)

C9Witness ==
    /\ Returned
    /\ q = 1
    /\ Len(notes_due) = 2
    /\ ~HasKey(review_log, notes_due[1])
    /\ notes_for_review = <<notes_due[1]>>

\* C10: a catalog note with a record is put in the due list exactly when
\* card.due <= now at the comparison; due = now is due, due = now + 1 is not.
C10DueThreshold ==
    [][(pc = "select" /\ si' = si + 1 /\ HasKey(review_log, notes[si + 1])) =>
          LET note == notes[si + 1]
              due == Get(review_log, note).card.due
          IN /\ (due <= clock) => notes_due' = Append(notes_due, note)
             /\ (due > clock) => notes_due' = notes_due
             /\ (due = clock) => note \in Range(notes_due')
             /\ (due = clock + 1) => note \notin Range(notes_due')]_vars

C10Witness ==
    /\ pc = "select"
    /\ si = 2
    /\ HasKey(review_log, notes[1])
    /\ HasKey(review_log, notes[2])
    /\ Get(review_log, notes[1]).card.due = clock
    /\ Get(review_log, notes[2]).card.due = clock + 1
    /\ notes_due = <<notes[1]>>


\* C11 (as claimed): for every integer limit the result has at most `limit`
\* identities.
C11LimitAnyInteger == Returned => Len(notes_for_review) <= q

\* C11 (amended): for every limit >= 0 the result has at most `limit`
\* identities.
C11LimitRespected == (Returned /\ q >= 0) => Len(notes_for_review) <= q

C11Witness ==
    /\ Returned
    /\ q = 1
    /\ Len(notes_due) = 2
    /\ Len(notes_for_review) = 1

\* position of a note in the catalog
PosIn(s, n) == CHOOSE i \in 1..Len(s) : s[i] = n

\* C12: the due list keeps catalog order, the result is its first `limit`
\* elements (limit >= 0), and no due note is returned ahead of a due note
\* that precedes it in the catalog, however overdue either is.
C12SelectionOrder ==
    /\ (pc = "select" \/ Returned) =>
         /\ Range(notes_due) \subseteq Range(notes)
         /\ \A i \in 1..Len(notes_due) : \A j \in 1..Len(notes_due) :
              i < j => PosIn(notes, notes_due[i]) < PosIn(notes, notes_due[j])
    /\ (Returned /\ q >= 0) =>
         /\ Len(notes_for_review) = (IF q < Len(notes_due) THEN q ELSE Len(notes_due))
         /\ \A i \in 1..Len(notes_for_review) : notes_for_review[i] = notes_due[i]
    /\ Returned =>
         /\ \A i \in 1..Len(notes_for_review) : \A j \in 1..Len(notes_for_review) :
              i < j => PosIn(notes, notes_for_review[i]) < PosIn(notes, notes_for_review[j])
         /\ \A j \in 1..Len(notes_for_review) : \A d \in Range(notes_due) :
              PosIn(notes, d) < PosIn(notes, notes_for_review[j]) =>
                  d \in Range(notes_for_review)

C12Witness ==
    /\ Returned
    /\ q = 1
    /\ Len(notes_due) = 2
    /\ HasKey(review_log, notes_due[1])
    /\ HasKey(review_log, notes_due[2])
    /\ Get(review_log, notes_due[2]).card.due < Get(review_log, notes_due[1]).card.due
    /\ notes_for_review = <<notes_due[1]>>


\* a step of __init__ that loads or fails to load the review log
LoadStep == pc = "start" /\ pc' # "start" /\ outcome' # "interrupted"

Torn(data) == data = <<>> \/ data[Len(data)].t # "}"

\* C14: when the file exists and does not parse, loading ends the run with an
\* error, no note is presented or rated in that run, and the file is left as
\* it was.
C14CorruptFatal ==
    /\ [][(LoadStep /\ file.exists /\ Torn(file.data)) =>
            /\ pc' = "done"
            /\ outcome' = "error"
            /\ file' = file]_vars
    /\ [](pc = "done" /\ outcome = "error" /\ stoppedAt = "start" =>
            /\ file.exists
            /\ Torn(file.data)
            /\ ExitCode(outcome) # 0
            /\ nRated = 0
            /\ nCalls = 0
            /\ nSaves = 0
            /\ notes_for_review = <<>>)
    /\ [][(pc = "done" /\ stoppedAt = "start" /\ session' = session) =>
            pc' = "done" /\ file' = file]_vars

C14Witness ==
    /\ pc = "done"
    /\ outcome = "error"
    /\ stoppedAt = "start"
    /\ Len(file.data) = 2
    /\ file.data[2].t = "entry"


\* C15: when the notes root does not exist the run ends with an error before
\* any review; it does not end as a normal, empty session.
C15MissingRootFatal ==
    (~rootExists /\ pc = "done" /\ outcome # "interrupted") =>
        /\ outcome = "error"
        /\ ExitCode(outcome) # 0


InSave == pc \in {"save_open", "save_write"}

\* C16: a failure of open or of a write in save_review_log ends the run at
\* once with an error status; the run never stands at a prompt while the
\* file differs from the store in memory.
C16FailedSaveAborts ==
    /\ [][(InSave /\ pc' \notin {"save_open", "save_write"} /\ file' = file
              /\ Len(file.data) < Len(Dump(review_log)) /\ outcome' # "interrupted") =>
            /\ pc' = "done"
            /\ outcome' = "error"
            /\ stoppedAt' = pc]_vars
    /\ [](pc = "done" /\ outcome = "error" /\ stoppedAt \in {"save_open", "save_write"} =>
            /\ ExitCode(outcome) # 0
            /\ nSaves = nRated - 1
            /\ idx = nSaves)
    /\ [][(pc = "done" /\ outcome = "error" /\ session' = session) => pc' = "done"]_vars
    /\ [](pc \in {"present", "ask"} =>
            /\ file.exists => Parses(file.data)
            /\ SameStore(DiskStore, review_log))

C16Witness ==
    /\ pc = "done"
    /\ outcome = "error"
    /\ stoppedAt = "save_write"
    /\ idx = 1
    /\ Torn(file.data)
    /\ ~SameStore(DiskStore, review_log)


\* C17: when the file does not exist, __init__ loads the empty mapping
\* without error, and every catalog note is then treated as never reviewed:
\* all of them are due.
C17FirstRun ==
    /\ [][(LoadStep /\ ~file.exists) =>
            /\ pc' = "walk"
            /\ outcome' = "none"
            /\ review_log' = <<>>
            /\ file' = file]_vars
    /\ [](~file.exists /\ pc = "select" =>
            \A i \in 1..si : notes[i] \in Range(notes_due))
    /\ [](~file.exists /\ (pc \in {"present", "ask"}
                           \/ (pc = "done" /\ outcome \in {"exhausted", "quit"})) =>
            /\ review_log = <<>>
            /\ notes_due = notes
            /\ Range(notes) \subseteq Range(notes_for_review) \/ Len(notes) > q)

C17Witness ==
    /\ pc = "present"
    /\ ~file.exists
    /\ review_log = <<>>
    /\ Len(notes) = 2
    /\ notes_for_review = notes

\* a step that reads an integer difficulty outside 1..4 and handles it
OutOfRangeStep ==
    /\ pc = "ask"
    /\ <<pc, line, reprompted>>' # <<pc, line, reprompted>>
    /\ outcome' = "none"
    /\ nRated' = nRated
    /\ IsIntLiteral(line')
    /\ IntOf(line') \notin 1..4

\* C18: after an invalid difficulty answer the run waits again for a
\* difficulty answer for the same note: the note is not presented again and
\* no further acknowledgement line is read.
C18RepromptInPlace ==
    [][OutOfRangeStep =>
          /\ pc' = "ask"
          /\ UNCHANGED <<idx, review_log, file, notes_for_review>>]_vars


\* a step that accepts a difficulty and runs update_review_log
RateStep == pc = "ask" /\ pc' = "save_open"

\* C19: for an accepted rating the engine gets the card stored for the note,
\* or a fresh default card when there is no record, and the record put is
\* {last_reviewed: today, card: the engine's card, review_log: the engine's
\* log entry}; the engine's card is the successor of the card it was given.
C19RecordingStep ==
    [][RateStep =>
          LET n == notes_for_review[idx + 1]
              given == IF HasKey(review_log, n) THEN Get(review_log, n).card
                       ELSE [due |-> clock, reps |-> 0]
              rec == Get(review_log', n)
          IN /\ lastCall'.note = n
             /\ lastCall'.card = given
             /\ HasKey(review_log', n)
             /\ rec.last_reviewed = clock \div DayLen
             /\ rec.card.reps = given.reps + 1
             /\ rec.card.due \in clock..(clock + MaxDelay)
             /\ rec.review_log = [review |-> clock]
             /\ \E d \in 0..MaxDelay :
                  /\ rec.card = ReviewCard(given, lastCall'.rating, clock, d).card
                  /\ rec.review_log = ReviewCard(given, lastCall'.rating, clock, d).log]_vars

C19Witness ==
    /\ pc = "save_open"
    /\ HasKey(loaded, CurrentNote)
    /\ lastCall.note = CurrentNote
    /\ lastCall.card = Get(loaded, CurrentNote).card
    /\ Get(review_log, CurrentNote).card.reps = 2


\* the keys of the entries the file holds, complete or not
FileKeys == {file.data[i].key : i \in {j \in 1..Len(file.data) : file.data[j].t = "entry"}}

\* C20: starting without a file, every key of the store in memory and of the
\* file is an identity discovery returned in this or an earlier run, and the
\* store gains a key only from the file or from the catalog of the run.
C20StoreKeys ==
    /\ [](/\ Keys(review_log) \subseteq discovered
          /\ FileKeys \subseteq discovered
          /\ Keys(loaded) \subseteq discovered)
    /\ [][/\ Keys(review_log') \ Keys(review_log) \subseteq (Range(notes) \cup FileKeys)
          /\ FileKeys' \ FileKeys \subseteq Keys(review_log)]_vars

C20Witness ==
    /\ session = 2
    /\ pc = "present"
    /\ \E k \in Keys(review_log) : k \notin Range(notes)
    /\ \E k \in FileKeys : k \notin Range(notes)


\* C21: with a user who sooner or later answers the difficulty prompt with
\* "q" or an integer in 1..4, every run reaches its end; a run ends only as
\* exhausted, quit, error or interrupted, and the two normal ends, exhausted
\* and quit, give exit status 0 without any exception.
C21Termination ==
    /\ <>[](pc = "done")
    /\ [](pc = "done" => outcome \in {"exhausted", "quit", "error", "interrupted"})
    /\ [](pc = "done" /\ outcome \in {"exhausted", "quit"} =>
            /\ ExitCode(outcome) = 0
            /\ stoppedAt = "none")
    /\ [](pc = "done" /\ outcome = "exhausted" => idx = Len(notes_for_review))
    /\ [](pc = "done" /\ outcome = "quit" => idx < Len(notes_for_review))

C21Witness ==
    /\ pc = "done"
    /\ outcome = "exhausted"
    /\ idx = 2
    /\ Keys(loaded) # {}

\* a step that reads the acknowledgement line
AckStep == pc = "present" /\ pc' # "present" /\ outcome' # "interrupted"

\* C22: the line read at the acknowledgement prompt, "q" included, does not
\* end the run and changes neither store nor file; the run goes on to the
\* difficulty prompt of the same note; a run ends as quit only by the answer
\* "q" at the difficulty prompt.
C22QuitCheckpoint ==
    /\ [][AckStep =>
            /\ pc' = "ask"
            /\ outcome' = "none"
            /\ UNCHANGED <<review_log, file, idx, notes_for_review, line,
                           nRated, nCalls, nSaves>>]_vars
    /\ [](pc = "ask" =>
            /\ outcome = "none"
            /\ ack \in AckInputs
            /\ idx < Len(notes_for_review))
    /\ [][(outcome' = "quit" /\ outcome # "quit") =>
            /\ pc = "ask"
            /\ line' = "q"]_vars

C22Witness ==
    /\ pc = "ask"
    /\ ack = "q"
    /\ idx = 1
    /\ outcome = "none"
    /\ SameStore(DiskStore, review_log)

\* C23: the queue is set once, when select_notes_for_review returns, and has
\* no repeats; the k-th engine call of a run is for the k-th note of the
\* queue, so each queued note is recorded at most once and in queue order;
\* the note at a prompt or in a save is never one already rated in this run,
\* also when the card the engine returned for it is already due.
C23FixedQueue ==
    /\ [][(notes_for_review' # notes_for_review) =>
            (pc = "select" \/ session' # session)]_vars
    /\ [](\A i \in 1..Len(notes_for_review) : \A j \in 1..Len(notes_for_review) :
            i # j => notes_for_review[i] # notes_for_review[j])
    /\ [](nCalls <= Len(notes_for_review))
    /\ [](pc \in {"present", "ask"} => nCalls = idx)
    /\ [][RateStep =>
            /\ nCalls' = nCalls + 1
            /\ lastCall'.note = notes_for_review[nCalls + 1]]_vars
    /\ [](pc \in {"present", "ask", "save_open", "save_write"} =>
            /\ idx < Len(notes_for_review)
            /\ notes_for_review[idx + 1] \notin FirstNotes(idx))
    /\ [](\A k \in FirstNotes(idx) :
            /\ HasKey(review_log, k)
            /\ Get(review_log, k).card.reps =
                 (IF HasKey(loaded, k) THEN Get(loaded, k).card.reps + 1 ELSE 1))

C23Witness ==
    /\ pc = "present"
    /\ idx = 1
    /\ Len(notes_for_review) = 2
    /\ IsDue(Get(review_log, notes_for_review[1]).card, clock)
    /\ nCalls = 1

\* the run waits for input or has ended normally
AtRest ==
    \/ pc \in {"present", "ask"}
    \/ pc = "done" /\ outcome \in {"exhausted", "quit"}

\* the file holds the store in memory, entry for entry
Agree ==
    /\ file.exists => Parses(file.data)
    /\ DiskStore = review_log

\* C24: whenever the run waits for input or has ended as exhausted or quit,
\* the file's content equals the store in memory (no file counting as the
\* empty store); once the store is loaded the two differ only from the put
\* of a record until the save that follows it completes, a save that was
\* stopped never completing.
C24MemoryDiskAgreement ==
    /\ AtRest => Agree
    /\ pc \in {"walk", "select"} => Agree
    /\ (pc # "start" /\ ~Agree) =>
          \/ InSave
          \/ pc = "done" /\ stoppedAt \in {"start", "save_open", "save_write"}
    /\ pc = "save_open" => ~Agree

C24Witness ==
    /\ pc = "ask"
    /\ session = 2
    /\ idx = 1
    /\ Len(review_log) = 2
    /\ Agree
    /\ review_log # loaded

\* a step in which save_review_log returns
SaveDone == pc = "save_write" /\ nSaves' = nSaves + 1

\* C25: recording a rating for note n replaces or inserts the record of n
\* and nothing else: every other record of the store in memory is unchanged
\* and keeps its place, the file written by the save that follows holds the
\* other records as they were loaded (or as recorded once, earlier in the
\* run), and no key leaves the store during a run.
C25RecordingFrame ==
    /\ [][RateStep =>
            LET n == notes_for_review[idx + 1] IN
            /\ Keys(review_log') = Keys(review_log) \cup {n}
            /\ Len(review_log') = Len(review_log) + (IF HasKey(review_log, n) THEN 0 ELSE 1)
            /\ \A i \in 1..Len(review_log) :
                 review_log[i].key # n => review_log'[i] = review_log[i]
            /\ file' = file]_vars
    /\ [][SaveDone =>
            LET n == notes_for_review[idx + 1]
                disk == Parse(file'.data)
            IN /\ Parses(file'.data)
               /\ Keys(disk) = Keys(loaded) \cup FirstNotes(idx) \cup {n}
               /\ \A k \in Keys(loaded) \ (FirstNotes(idx) \cup {n}) :
                    Get(disk, k) = Get(loaded, k)
               /\ \A k \in FirstNotes(idx) :
                    Get(disk, k) = Get(review_log, k)]_vars
    /\ [][session' = session => Keys(review_log) \subseteq Keys(review_log')]_vars
    /\ [](Keys(loaded) \subseteq Keys(review_log))

C25Witness ==
    /\ pc = "present"
    /\ idx = 1
    /\ Len(loaded) = 2
    /\ notes_for_review[1] = loaded[1].key
    /\ review_log[1] # loaded[1]
    /\ review_log[2] = loaded[2]
    /\ DiskStore = review_log

\* C26: as long as a run has accepted no rating, no step of it opens or
\* writes the file: an existing file keeps its content and a missing file
\* stays missing, up to and including the end of a run with an empty queue
\* or with "q" at the first difficulty prompt.
C26NoRatingNoWrite ==
    /\ [][nRated' = 0 => file' = file]_vars
    /\ [](nRated = 0 => nSaves = 0 /\ nCalls = 0 /\ ~InSave)
    /\ [](nRated = 0 /\ pc \notin {"start", "done"} =>
            /\ review_log = loaded
            /\ DiskStore = loaded)
    /\ [](pc = "done" /\ outcome = "exhausted" /\ notes_for_review = <<>> => nRated = 0)
    /\ [](pc = "done" /\ outcome = "quit" /\ idx = 0 => nRated = 0)

C26Witness ==
    /\ pc = "done"
    /\ outcome = "exhausted"
    /\ nRated = 0
    /\ Len(notes) = 2
    /\ file.exists
    /\ Len(file.data) = 4

\* records loaded for notes that the catalog of this run does not hold
Orphans == Keys(loaded) \ Range(notes)

\* C27: the due list and the result of select_notes_for_review hold only
\* ".md" paths of the current walk, each at most once; no step of the
\* selection changes store or file; a record whose note is not in the
\* catalog is never queued, stays in memory as loaded, and is in every file
\* a later save of the run completes, as loaded.
C27SelectionConfined ==
    /\ [](/\ Range(notes) \subseteq {f \in Range(listing) : EndsWithMd(f)}
          /\ Range(notes_due) \subseteq Range(notes)
          /\ Range(notes_for_review) \subseteq Range(notes_due)
          /\ Cardinality(Range(notes_for_review)) = Len(notes_for_review)
          /\ Cardinality(Range(notes_due)) = Len(notes_due))
    /\ [][(pc \in {"walk", "select"}) =>
            (review_log' = review_log /\ file' = file)]_vars
    /\ [](pc \notin {"start", "walk"} =>
            \A k \in Orphans :
                /\ k \notin Range(notes_for_review)
                /\ HasKey(review_log, k)
                /\ Get(review_log, k) = Get(loaded, k))
    /\ [][(SaveDone /\ notes' = notes) =>
            \A k \in Orphans :
                /\ HasKey(Parse(file'.data), k)
                /\ Get(Parse(file'.data), k) = Get(loaded, k)]_vars

C27Witness ==
    /\ pc = "done"
    /\ outcome = "exhausted"
    /\ nSaves = 1
    /\ Orphans # {}
    /\ \A k \in Orphans : Get(DiskStore, k) = Get(loaded, k)
    /\ \E k \in Range(notes) \cap Keys(loaded) :
         Get(DiskStore, k) # Get(loaded, k)

\* a step of "for note in notes" in a later run, on a note that the file
\* left by the earlier runs holds
SelStepOnSaved ==
    /\ pc = "select"
    /\ si' = si + 1
    /\ session > 1
    /\ saved.valid
    /\ HasKey(saved.store, notes[si + 1])

\* C28: a run that starts on the file of a completed save loads that store;
\* a note recorded there is put in the due list exactly when the due instant
\* of its saved card, the one the engine returned, is <= the clock at the
\* comparison; a queued recorded note has due <= now, and a recorded note
\* whose due instant is still ahead is not in the due list nor in the queue.
C28CrossSession ==
    /\ [][(LoadStep /\ saved.valid) =>
            (pc' = "walk" /\ review_log' = saved.store /\ loaded' = saved.store)]_vars
    /\ [][SelStepOnSaved =>
            LET note == notes[si + 1]
                due == Get(saved.store, note).card.due
            IN /\ due <= clock => notes_due' = Append(notes_due, note)
               /\ due > clock => notes_due' = notes_due]_vars
    /\ [](session > 1 =>
            \A k \in Keys(loaded) :
                /\ k \in Range(notes_due) => Get(loaded, k).card.due <= clock
                /\ k \in Range(notes_for_review) => Get(loaded, k).card.due <= clock
                /\ Get(loaded, k).card.due > clock =>
                     k \notin Range(notes_due) /\ k \notin Range(notes_for_review))

C28Witness ==
    /\ session = 2
    /\ pc = "present"
    /\ saved.valid
    /\ Len(notes) = 2
    /\ Range(notes) = Keys(saved.store)
    /\ Len(notes_for_review) = 1
    /\ Get(saved.store, notes_for_review[1]).card.due <= clock
    /\ \E k \in Range(notes) : Get(saved.store, k).card.due > clock


====
